---------------------------- MODULE Spec2Model ----------------------------
(***************************************************************************)
(* Model of Get_Vavoo_Channels_with_FTP.py: the name normalizer            *)
(* (clean_channel_name), the URL resolver (get_channel_url), the playlist  *)
(* serializer (convert_json_to_m3u8), the FTP publisher (upload_to_ftp)    *)
(* and the pipeline that gates them (main).                                *)
(*                                                                         *)
(* A Python str is a sequence of one-character strings.  A JSON value is a *)
(* record [t, v]: t is its type ("str", "null", "num", "absent" for a key  *)
(* the mapping does not hold) and v its characters.                        *)
(***************************************************************************)
EXTENDS Naturals, Sequences, FiniteSets, TLC

VARIABLES
    arg,    \* the argument of the function under test (unit specifications)
    ret1,   \* its result
    ret2,   \* the result of applying it again
    upc,    \* position of the unit run: "off", "call", "once", "twice"
    pc,                 \* main: the stage the run is at
    pending,            \* main: the exit signal waiting behind the finally block
    console,            \* main: the messages reported so far
    upload_enabled,     \* main: first component of get_ftp_config()
    ftp_config,         \* main: second component of get_ftp_config()
    channels,           \* main: what download_json_from_url returned
    conv_pc,            \* convert_json_to_m3u8: "idle", "open", "loop", "done"
    it,                 \* convert_json_to_m3u8: index of the next record
    original_name,      \* convert_json_to_m3u8: the local of that name
    processed_channels, \* convert_json_to_m3u8: the counter
    conv_ret,           \* convert_json_to_m3u8: "none", "True", "False"
    conv_fail,          \* convert_json_to_m3u8: which handler returned False
    file,               \* the playlist file: its characters, or NoFile
    ftp_state,          \* upload_to_ftp: state of the publisher
    ftp_ret,            \* upload_to_ftp: "none", "True", "False", "raised"
    ftp_host,           \* upload_to_ftp: argument
    remote_path,        \* upload_to_ftp: argument
    ftp_log,            \* upload_to_ftp: the library calls made, with outcomes
    ftp_cwd,            \* the server: current directory of the session
    ftp_stored          \* the server: directory the file was stored in

uvars == <<arg, ret1, ret2, upc>>
mvars == <<pc, pending, console, upload_enabled, ftp_config, channels>>
cvars == <<conv_pc, it, original_name, processed_channels, conv_ret, conv_fail>>
fvars == <<ftp_state, ftp_ret, ftp_host, remote_path, ftp_log, ftp_cwd,
           ftp_stored>>
vars == <<arg, ret1, ret2, upc, pc, pending, console, upload_enabled,
          ftp_config, channels, conv_pc, it, original_name,
          processed_channels, conv_ret, conv_fail, file, ftp_state, ftp_ret,
          ftp_host, remote_path, ftp_log, ftp_cwd, ftp_stored>>

-----------------------------------------------------------------------------
(* Characters and JSON values *)

AsciiUpper ==
    <<"A", "B", "C", "D", "E", "F", "G", "H", "I", "J", "K", "L", "M",
      "N", "O", "P", "Q", "R", "S", "T", "U", "V", "W", "X", "Y", "Z">>

AsciiLower ==
    <<"a", "b", "c", "d", "e", "f", "g", "h", "i", "j", "k", "l", "m",
      "n", "o", "p", "q", "r", "s", "t", "u", "v", "w", "x", "y", "z">>

Range(f) == {f[i] : i \in DOMAIN f}

\* [A-Za-z] of the regular expressions
IsAlpha(c) == c \in Range(AsciiUpper) \cup Range(AsciiLower)

\* \s of the regular expressions, and what str.strip() strips
IsSpace(c) == c \in {" ", "\t", "\n"}

\* str.upper() on one character (ASCII letters; everything else is kept)
Upper(c) ==
    IF c \in Range(AsciiLower)
    THEN AsciiUpper[CHOOSE i \in DOMAIN AsciiLower : AsciiLower[i] = c]
    ELSE c

UpperStr(s) == [i \in DOMAIN s |-> Upper(s[i])]

\* a character the utf-8 codec cannot encode (a lone surrogate, which
\* json.loads accepts in a string)
Surrogate == "U+D800"

Str(s) == [t |-> "str", v |-> s]
Null == [t |-> "null", v |-> <<>>]
Num(s) == [t |-> "num", v |-> s]
Absent == [t |-> "absent", v |-> <<>>]

\* bool(x) of a JSON value
Truthy(x) ==
    \/ x.t = "str" /\ x.v # <<>>
    \/ x.t = "num" /\ x.v # <<"0">>

\* str(x), as an f-string renders the value
Format(x) ==
    CASE x.t = "str" -> x.v
      [] x.t = "null" -> <<"N", "o", "n", "e">>
      [] OTHER -> x.v

\* needle in haystack
Contains(hay, needle) ==
    \E i \in 1..(Len(hay) + 1) :
        /\ i + Len(needle) - 1 <= Len(hay)
        /\ \A k \in 1..Len(needle) : hay[i + k - 1] = needle[k]

-----------------------------------------------------------------------------
(* The values of the variables of a part of the program that is not run *)

NoFile == <<"<no file>">>
Unbound == [t |-> "unbound", v |-> <<>>]
None == [t |-> "none", v |-> <<>>]

MainOff ==
    /\ pc = "off"
    /\ pending = "none"
    /\ console = <<>>
    /\ upload_enabled = FALSE
    /\ ftp_config = None
    /\ channels = Unbound

ConvertIdle ==
    /\ conv_pc = "idle"
    /\ it = 1
    /\ original_name = Unbound
    /\ processed_channels = 0
    /\ conv_ret = "none"
    /\ conv_fail = "none"

FtpNotCalled ==
    /\ ftp_state = "NotCalled"
    /\ ftp_ret = "none"
    /\ ftp_host = <<>>
    /\ remote_path = <<>>
    /\ ftp_log = <<>>
    /\ ftp_cwd = <<"/">>
    /\ ftp_stored = None

PipelineOff == MainOff /\ ConvertIdle /\ file = NoFile /\ FtpNotCalled

UnitOff == arg = None /\ ret1 = <<>> /\ ret2 = <<>> /\ upc = "off"

-----------------------------------------------------------------------------
(* clean_channel_name *)

UnknownChannel ==
    <<"U", "n", "b", "e", "k", "a", "n", "n", "t", "e", "r", " ",
      "K", "a", "n", "a", "l">>

exceptions ==
    <<<<"B", "L", "U", "E", "T", "V">>,
      <<"S", "K", "Y", " ", "B", "O", "X">>,
      <<"S", "K", "Y", " ", "S", "E", "L", "E", "C", "T">>,
      <<"1", "2", "3", " ", "T", "V">>,
      <<"1", ".", "2", ".", "3", ".", " ", "T", "V">>,
      <<"S", "T", "E", "R", "N", " ", "F", "I", "L", "M", "E">>,
      <<"G", "E", "R", "M", "A", "N", "Y", " ", "K", "O", "N", "I", "G", " ",
        "F", "I", "L", "M", "E">>,
      <<"G", "E", "R", "M", "A", "N", "Y", " ", "B", "E", "S", "O", "N", "D",
        "E", "R", "E">>>>

is_exception(name) ==
    \E e \in DOMAIN exceptions : Contains(UpperStr(name), exceptions[e])

\* the first index >= i that holds no whitespace (Len(s) + 1 at the end): \s*
RECURSIVE SkipWs(_, _)
SkipWs(s, i) ==
    IF i <= Len(s) /\ IsSpace(s[i]) THEN SkipWs(s, i + 1) ELSE i

\* tok at index j of s, letters compared as re.IGNORECASE does
TokenAt(s, j, tok) ==
    /\ j + Len(tok) - 1 <= Len(s)
    /\ \A k \in 1..Len(tok) : Upper(s[j + k - 1]) = Upper(tok[k])

\* re.sub(r'\s*TOK\s*', ' ', s, flags=re.IGNORECASE) from index i on:
\* leftmost match first, the matches do not overlap
RECURSIVE SubTokenFrom(_, _, _)
SubTokenFrom(s, tok, i) ==
    IF i > Len(s) THEN <<>>
    ELSE LET j == SkipWs(s, i)
         IN  IF TokenAt(s, j, tok)
             THEN <<" ">> \o SubTokenFrom(s, tok, SkipWs(s, j + Len(tok)))
             ELSE <<s[i]>> \o SubTokenFrom(s, tok, i + 1)

SubToken(s, tok) == SubTokenFrom(s, tok, 1)

\* \|[EHD] at index j of s (case-sensitive)
MarkerAt(s, j) ==
    /\ j + 1 <= Len(s)
    /\ s[j] = "|"
    /\ s[j + 1] \in {"E", "H", "D"}

\* re.sub(r'\s*\|[EHD]\s*', ' ', s) from index i on
RECURSIVE SubMarkerFrom(_, _)
SubMarkerFrom(s, i) ==
    IF i > Len(s) THEN <<>>
    ELSE LET j == SkipWs(s, i)
         IN  IF MarkerAt(s, j)
             THEN <<" ">> \o SubMarkerFrom(s, SkipWs(s, j + 2))
             ELSE <<s[i]>> \o SubMarkerFrom(s, i + 1)

SubMarker(s) == SubMarkerFrom(s, 1)

\* re.sub(r'\s+', ' ', s) from index i on
RECURSIVE CollapseWsFrom(_, _)
CollapseWsFrom(s, i) ==
    IF i > Len(s) THEN <<>>
    ELSE IF IsSpace(s[i])
         THEN <<" ">> \o CollapseWsFrom(s, SkipWs(s, i))
         ELSE <<s[i]>> \o CollapseWsFrom(s, i + 1)

CollapseWs(s) == CollapseWsFrom(s, 1)

\* the last index of the whitespace-free tail: what rstrip keeps
RECURSIVE LastNonWs(_, _)
LastNonWs(s, i) ==
    IF i >= 1 /\ IsSpace(s[i]) THEN LastNonWs(s, i - 1) ELSE i

\* str.strip()
Strip(s) == SubSeq(s, SkipWs(s, 1), LastNonWs(s, Len(s)))

\* the last index of the run of letters that starts at i: [A-Za-z]+
RECURSIVE AlphaRunEnd(_, _)
AlphaRunEnd(s, i) ==
    IF i + 1 <= Len(s) /\ IsAlpha(s[i + 1]) THEN AlphaRunEnd(s, i + 1) ELSE i

\* (?:\s+[A-Za-z]+)* after a word ending at e: the end of the match
RECURSIVE MoreWords(_, _)
MoreWords(s, e) ==
    LET j == SkipWs(s, e + 1)
    IN  IF j > e + 1 /\ j <= Len(s) /\ IsAlpha(s[j])
        THEN MoreWords(s, AlphaRunEnd(s, j))
        ELSE e

\* re.match(r'^([A-Za-z]+(?:\s+[A-Za-z]+)*)', s): the length of group 1,
\* 0 when there is no match
MainNameLen(s) ==
    IF s # <<>> /\ IsAlpha(s[1]) THEN MoreWords(s, AlphaRunEnd(s, 1)) ELSE 0

\* the branch for the names on the exception list
CleanException(s) == Strip(CollapseWs(SubMarker(s)))

\* the standard cleanup
CleanStandard(s) ==
    LET n1 == SubToken(s, <<"H", "D">>)
        n2 == SubToken(n1, <<"F", "H", "D">>)
        n3 == SubToken(n2, <<"4", "K">>)
        n4 == SubMarker(n3)
        m == MainNameLen(n4)
        n5 == IF m > 0 THEN SubSeq(n4, 1, m) ELSE n4
        n6 == Strip(CollapseWs(n5))
    IN  IF n6 # <<>> THEN n6 ELSE UnknownChannel

\* clean_channel_name(name): name is a JSON value, the result a str
clean_channel_name(name) ==
    IF ~Truthy(name) \/ name.t # "str" THEN UnknownChannel
    ELSE IF is_exception(name.v) THEN CleanException(name.v)
    ELSE CleanStandard(name.v)

-----------------------------------------------------------------------------
(* Inputs of the normalizer *)

MaxParts == 4

Fragments ==
    {<<"H">>, <<"D">>, <<"F">>, <<"K">>, <<"4">>, <<"1">>, <<"|">>, <<"E">>,
     <<" ">>, <<"a">>, <<"d">>, <<"S", "K", "Y">>, <<" ", "B", "O", "X">>}

RECURSIVE NamesOf(_)
NamesOf(n) ==
    IF n = 0 THEN {<<>>}
    ELSE LET shorter == NamesOf(n - 1)
         IN  shorter \cup {s \o f : s \in shorter, f \in Fragments}

Names == NamesOf(MaxParts)

CleanInputs == {Str(s) : s \in Names} \cup {Null, Num(<<"5">>)}

InitClean ==
    /\ arg \in CleanInputs
    /\ ret1 = <<>>
    /\ ret2 = <<>>
    /\ upc = "call"
    /\ PipelineOff

\* displayName = clean_channel_name(rawName)
Normalize ==
    /\ upc = "call"
    /\ ret1' = clean_channel_name(arg)
    /\ upc' = "once"
    /\ UNCHANGED <<arg, ret2, mvars, cvars, file, fvars>>

\* clean_channel_name applied to its own result
NormalizeAgain ==
    /\ upc = "once"
    /\ ret2' = clean_channel_name(Str(ret1))
    /\ upc' = "twice"
    /\ UNCHANGED <<arg, ret1, mvars, cvars, file, fvars>>

NextClean == Normalize \/ NormalizeAgain

SpecClean == InitClean /\ [][NextClean]_vars

-----------------------------------------------------------------------------
(* The claims about clean_channel_name *)

NoLetters(s) == \A i \in DOMAIN s : ~IsAlpha(s[i])

\* C7: a name that is empty, is not text, or is off the exception list and
\* holds digits and symbols only (no letter) is mapped to the placeholder
\* "Unbekannter Kanal".
C7_SymbolicToPlaceholder ==
    (/\ upc # "call"
     /\ \/ arg.t # "str"
        \/ arg.v = <<>>
        \/ ~is_exception(arg.v) /\ NoLetters(arg.v))
    => ret1 = UnknownChannel

\* C9: clean_channel_name is idempotent: cleaning a cleaned name changes
\* nothing.
C9_Idempotent == upc = "twice" => ret2 = ret1

QualityTokens == {<<"H", "D">>, <<"F", "H", "D">>, <<"4", "K">>}

\* the last index of the whitespace-free run that starts at i
RECURSIVE WordEnd(_, _)
WordEnd(s, i) ==
    IF i + 1 <= Len(s) /\ ~IsSpace(s[i + 1]) THEN WordEnd(s, i + 1) ELSE i

\* s from index i on, without the whitespace-bounded words HD, FHD and 4K
RECURSIVE DropQualityWords(_, _)
DropQualityWords(s, i) ==
    IF i > Len(s) THEN <<>>
    ELSE IF IsSpace(s[i]) THEN <<s[i]>> \o DropQualityWords(s, i + 1)
    ELSE LET e == WordEnd(s, i)
             w == SubSeq(s, i, e)
         IN  (IF UpperStr(w) \in QualityTokens THEN <<>> ELSE w)
                 \o DropQualityWords(s, e + 1)

HasQualityWord(s) == DropQualityWords(s, 1) # s

\* the prefix of s before its first character that is no letter and no space
RECURSIVE LeadingRun(_, _)
LeadingRun(s, i) ==
    IF i <= Len(s) /\ (IsAlpha(s[i]) \/ IsSpace(s[i]))
    THEN <<s[i]>> \o LeadingRun(s, i + 1)
    ELSE <<>>

\* what the claim asks of a name off the exception list: the standalone
\* tokens removed whole, then the leading run of alphabetic words
TokensRemoved(s) ==
    LET r == Strip(CollapseWs(LeadingRun(DropQualityWords(s, 1), 1)))
    IN  IF r # <<>> THEN r ELSE UnknownChannel

\* C10: for a name off the exception list that holds HD, FHD or 4K as a
\* whitespace-bounded token, the result is the name without these tokens
\* (no fragment of a token left, nothing removed inside a longer word), cut
\* at its first character that is no letter and no space.
C10_StandaloneTokensRemoved ==
    (upc # "call" /\ arg.t = "str" /\ ~is_exception(arg.v)
        /\ HasQualityWord(arg.v))
    => ret1 = TokensRemoved(arg.v)

-----------------------------------------------------------------------------
(* get_channel_url, and how convert_json_to_m3u8 reads a record *)

BildTv == <<"B", "I", "L", "D", " ", "T", "V">>

BildUrl == <<"https://bild.personalstream.tv/v1/master.m3u8">>

PlayUrl(id) == <<"https://huhu.to/play/">> \o id \o <<"/index.m3u8">>

PlaceholderUrl == <<"https://example.com/placeholder.m3u8">>

Returned(v) == [raised |-> FALSE, v |-> v]
Raised == [raised |-> TRUE, v |-> <<>>]

\* get_channel_url with the id rule tried before the name rule
UrlIdFirst(channel_id, channel_name) ==
    LET n == IF ~Truthy(channel_name) THEN Str(<<>>) ELSE channel_name
    IN  IF n.t # "str" THEN Raised
        ELSE IF Truthy(channel_id) THEN Returned(PlayUrl(Format(channel_id)))
        ELSE IF Contains(UpperStr(n.v), BildTv) THEN Returned(BildUrl)
        ELSE Returned(PlaceholderUrl)

\* get_channel_url(channel_id, channel_name); .upper() of a name that is
\* neither falsy nor a str raises AttributeError
get_channel_url(channel_id, channel_name) ==
    LET n == IF ~Truthy(channel_name) THEN Str(<<>>) ELSE channel_name
    IN  IF n.t # "str" THEN Raised
        ELSE IF Contains(UpperStr(n.v), BildTv) THEN Returned(BildUrl)
        ELSE IF Truthy(channel_id) THEN Returned(PlayUrl(Format(channel_id)))
        ELSE Returned(PlaceholderUrl)

\* a catalog record that is a mapping
Channel(country, id, name) ==
    [t |-> "map", country |-> country, id |-> id, name |-> name]

\* channel.get(key, default)
Get(channel, key, default) ==
    IF channel[key] = Absent THEN default ELSE channel[key]

Unknown == <<"U", "n", "b", "e", "k", "a", "n", "n", "t">>

EntryCountry(channel) == Get(channel, "country", Str(Unknown))
EntryId(channel) == Get(channel, "id", Str(<<>>))
EntryName(channel) == Get(channel, "name", Str(UnknownChannel))

\* the name convert_json_to_m3u8 hands to get_channel_url
UrlName(raw_name, clean_name) == raw_name

\* channel_url of one record, as convert_json_to_m3u8 computes it
EntryUrl(channel) ==
    LET raw_name == EntryName(channel)
        clean_name == Str(clean_channel_name(raw_name))
    IN  get_channel_url(EntryId(channel), UrlName(raw_name, clean_name))

-----------------------------------------------------------------------------
(* Inputs of the resolver *)

MaxUrlParts == 3

UrlFragments ==
    {<<"B", "I", "L", "D">>, <<"b", "i", "l", "d">>, <<"B", "i", "l", "d">>,
     <<" ">>, <<"T", "V">>, <<"t", "v">>, <<"T", "v">>, <<"1">>, <<"a">>}

RECURSIVE UrlNamesOf(_)
UrlNamesOf(n) ==
    IF n = 0 THEN {<<>>}
    ELSE LET shorter == UrlNamesOf(n - 1)
         IN  shorter \cup {s \o f : s \in shorter, f \in UrlFragments}

UrlIds == {Absent, Null, Str(<<>>), Str(<<"7">>), Str(<<"1", "2", "3">>)}

UrlInputs ==
    {Channel(Absent, i, n) :
        i \in UrlIds,
        n \in {Absent, Null} \cup {Str(s) : s \in UrlNamesOf(MaxUrlParts)}}

InitUrl ==
    /\ arg \in UrlInputs
    /\ ret1 = <<>>
    /\ ret2 = <<>>
    /\ upc = "call"
    /\ PipelineOff

\* streamURL of one record; ret2 keeps the normalized name beside it
Resolve ==
    /\ upc = "call"
    /\ ret1' = EntryUrl(arg)
    /\ ret2' = clean_channel_name(EntryName(arg))
    /\ upc' = "once"
    /\ UNCHANGED <<arg, mvars, cvars, file, fvars>>

NextUrl == Resolve

SpecUrl == InitUrl /\ [][NextUrl]_vars

\* "BILD TV" occurs in s in some letter case
HoldsBildTv(s) ==
    \E i \in DOMAIN s :
        /\ i + 6 <= Len(s)
        /\ s[i] \in {"B", "b"} /\ s[i + 1] \in {"I", "i"}
        /\ s[i + 2] \in {"L", "l"} /\ s[i + 3] \in {"D", "d"}
        /\ s[i + 4] = " "
        /\ s[i + 5] \in {"T", "t"} /\ s[i + 6] \in {"V", "v"}

HasId(channel) == channel.id.t = "str" /\ channel.id.v # <<>>

\* C6: first match wins, on the raw name: a raw name holding "BILD TV" in
\* any letter case gives the dedicated address whatever the id; otherwise a
\* non-empty id gives https://huhu.to/play/<id>/index.m3u8 with that id;
\* otherwise the placeholder address.
C6_UrlRules ==
    upc = "once" =>
        ret1 = Returned(
            IF arg.name.t = "str" /\ HoldsBildTv(arg.name.v) THEN BildUrl
            ELSE IF HasId(arg)
                 THEN <<"https://huhu.to/play/">> \o arg.id.v \o <<"/index.m3u8">>
                 ELSE PlaceholderUrl)

\* a record with an id whose raw name holds "bild tv" in mixed case was
\* resolved to the dedicated address
C6_Witness ==
    /\ upc = "once"
    /\ HasId(arg)
    /\ arg.name.t = "str"
    /\ HoldsBildTv(arg.name.v)
    /\ ~Contains(arg.name.v, BildTv)
    /\ ret1 = Returned(BildUrl)

-----------------------------------------------------------------------------
(* convert_json_to_m3u8 *)

\* the file is the sequence of the characters written to it; a fixed piece
\* of text is kept as one element, "\n" ends a line

HeaderText ==
    "#EXTM3U8 x-url-tvg=https://vav00.de/sources/epg/epg_de.xml,https://epgshare01.online/epgshare01/epg_ripper_DE1.xml.gz"

UserAgentText == "#EXTVLCOPT:http-user-agent=VAVOO/2.6"

ReferrerText == "#EXTVLCOPT:http-referrer=https://vavoo.tv/"

ExtInfHead == "#EXTINF:-1 group-title=\""

ExtInfLogo ==
    "\" tvg-logo=\"https://raw.githubusercontent.com/SuperNova-Repo/Vavuu-IPTV/refs/heads/main/VAVOO_%26_OTT-Navigator-icon.jpg\" tvg-name=\""

ExtInfLabel == "\", "

HeaderLine == <<HeaderText, "\n">>
UserAgentLine == <<UserAgentText, "\n">>
ReferrerLine == <<ReferrerText, "\n">>

ExtInfLine(country, clean_name) ==
    <<ExtInfHead>> \o country \o <<ExtInfLogo>> \o clean_name
        \o <<ExtInfLabel>> \o clean_name \o <<"\n">>

UrlLine(channel_url) == channel_url \o <<"\n">>

\* the utf-8 codec of the file encodes the text
Encodable(text) == Surrogate \notin Range(text)

\* the four writes of one entry, in the order of the code
EntryWrites(channel, channel_url) ==
    <<UserAgentLine,
      ReferrerLine,
      ExtInfLine(Format(EntryCountry(channel)),
                 clean_channel_name(EntryName(channel))),
      UrlLine(channel_url)>>

\* m3u8_file.write(texts[k]), ..., one after the other; a text the codec
\* cannot encode raises UnicodeEncodeError and nothing of it is written
RECURSIVE WriteEach(_, _, _)
WriteEach(f, texts, k) ==
    IF k > Len(texts) THEN [file |-> f, ok |-> TRUE]
    ELSE IF ~Encodable(texts[k]) THEN [file |-> f, ok |-> FALSE]
    ELSE WriteEach(f \o texts[k], texts, k + 1)

\* what `for channel in channels` iterates over: the items of a list, the
\* keys of an object
Items(ch) == ch.v

Iterable(ch) == ch.t \in {"list", "dict"}

\* the except clause of the loop: its message formats original_name, a
\* local that is unbound until a record got as far as line 441
HandlerRaises(bound_name) == bound_name = Unbound

\* os.makedirs, open(..., 'w') and the header write
ConvertOpen ==
    /\ conv_pc = "open"
    /\ \/ /\ file' = HeaderLine
          /\ IF Iterable(channels)
             THEN /\ conv_pc' = "loop"
                  /\ UNCHANGED <<conv_ret, conv_fail>>
             ELSE /\ conv_pc' = "done"
                  /\ conv_ret' = "False"
                  /\ conv_fail' = "general"
       \/ /\ conv_pc' = "done"
          /\ conv_ret' = "False"
          /\ conv_fail' = "filesystem"
          /\ UNCHANGED file
    /\ UNCHANGED <<it, original_name, processed_channels>>
    /\ UNCHANGED <<uvars, mvars, fvars>>

\* one pass of the loop body, with its except clause
ConvertEntry ==
    /\ conv_pc = "loop"
    /\ it <= Len(Items(channels))
    /\ LET channel == Items(channels)[it]
       IN  IF channel.t # "map"
           THEN \* channel.get raises AttributeError
                IF HandlerRaises(original_name)
                THEN /\ conv_pc' = "done"
                     /\ conv_ret' = "False"
                     /\ conv_fail' = "general"
                     /\ UNCHANGED <<it, original_name, processed_channels,
                                    file>>
                ELSE /\ it' = it + 1
                     /\ UNCHANGED <<conv_pc, conv_ret, conv_fail,
                                    original_name, processed_channels, file>>
           ELSE LET channel_url == EntryUrl(channel)
                    w == WriteEach(file,
                                   EntryWrites(channel, channel_url.v), 1)
                IN  /\ original_name' = EntryName(channel)
                    /\ it' = it + 1
                    /\ IF channel_url.raised
                       THEN UNCHANGED <<file, processed_channels>>
                       ELSE /\ file' = w.file
                            /\ processed_channels' =
                                   IF w.ok THEN processed_channels + 1
                                   ELSE processed_channels
                    /\ UNCHANGED <<conv_pc, conv_ret, conv_fail>>
    /\ UNCHANGED <<uvars, mvars, fvars>>

\* the loop is over: the file is closed and True returned
ConvertFinish ==
    /\ conv_pc = "loop"
    /\ it > Len(Items(channels))
    /\ conv_pc' = "done"
    /\ conv_ret' = "True"
    /\ UNCHANGED <<it, original_name, processed_channels, conv_fail, file>>
    /\ UNCHANGED <<uvars, mvars, fvars>>

-----------------------------------------------------------------------------
(* upload_to_ftp *)

\* ftplib.all_errors: ftplib.Error and its subclasses, OSError (with
\* socket.gaierror and the timeouts), EOFError
AllErrors ==
    {"error_reply", "error_temp", "error_perm", "error_proto", "OSError",
     "gaierror", "EOFError"}

\* what `except Exception` catches beyond them
Exceptions == AllErrors \cup {"ValueError"}

\* the outer except clauses without the one for Exception
OuterHandlerFtpOnly(kind) == IF kind \in AllErrors THEN "False" ELSE "raised"

\* the two outer except clauses: both report and return False
OuterHandler(kind) ==
    IF kind \in AllErrors THEN "False"
    ELSE IF kind \in Exceptions THEN "False"
    ELSE "raised"

\* the except clause around the first connect
RetriesConnect(kind) == kind = "gaierror"

\* the except clause around ftp.cwd
CwdHandled(kind) == kind = "error_perm"

\* `if remote_path and remote_path != "/"`
NeedsCwd(path) == path # <<>> /\ path # <<"/">>

\* s.replace(pat, '') from index i on
RECURSIVE RemoveFrom(_, _, _)
RemoveFrom(s, pat, i) ==
    IF i > Len(s) THEN <<>>
    ELSE IF /\ i + Len(pat) - 1 <= Len(s)
            /\ SubSeq(s, i, i + Len(pat) - 1) = pat
         THEN RemoveFrom(s, pat, i + Len(pat))
         ELSE <<s[i]>> \o RemoveFrom(s, pat, i + 1)

\* clean_host
CleanHost(host) ==
    RemoveFrom(RemoveFrom(host, <<"f", "t", "p", ":", "/", "/">>, 1),
               <<"f", "t", "p", "s", ":", "/", "/">>, 1)

\* the names the resolver knows
Resolvable == {<<"h">>}

\* how ftp.connect(host, 21, timeout=30) can end
ConnectOutcomes(host) ==
    IF host \in Resolvable THEN {"ok", "gaierror", "OSError"}
    ELSE {"gaierror"}

LoginOutcomes == {"ok", "error_perm", "OSError", "ValueError"}
CwdOutcomes == {"ok", "error_perm", "error_temp", "OSError"}
QuitOutcomes == {"ok", "error_temp", "EOFError"}

\* open(file_path, 'rb') and ftp.storbinary
StorOutcomes(f) ==
    IF f = NoFile THEN {"OSError"} ELSE {"ok", "error_perm", "OSError"}

Call(step, a, out) == [step |-> step, arg |-> a, out |-> out]

Calls(step) == {i \in DOMAIN ftp_log : ftp_log[i].step = step}

\* an error reaches the outer except clauses
FtpFail(kind) ==
    /\ ftp_ret' = OuterHandler(kind)
    /\ ftp_state' = IF OuterHandler(kind) = "raised" THEN ftp_state
                    ELSE "Failed"

\* ftp.connect(ftp_host, 21, timeout=30)
FtpConnect ==
    /\ ftp_state = "Idle"
    /\ ftp_ret = "none"
    /\ Calls("connect") = {}
    /\ \E out \in ConnectOutcomes(ftp_host) :
        /\ ftp_log' = Append(ftp_log, Call("connect", ftp_host, out))
        /\ IF out = "ok"
           THEN ftp_state' = "Connected" /\ UNCHANGED ftp_ret
           ELSE IF RetriesConnect(out)
                THEN UNCHANGED <<ftp_state, ftp_ret>>
                ELSE FtpFail(out)
    /\ UNCHANGED <<ftp_host, remote_path, ftp_cwd, ftp_stored>>
    /\ UNCHANGED <<uvars, mvars, cvars, file>>

\* ftp.connect(clean_host, 21, timeout=30) in the except clause
FtpReconnect ==
    /\ ftp_state = "Idle"
    /\ ftp_ret = "none"
    /\ Cardinality(Calls("connect")) = 1
    /\ \E out \in ConnectOutcomes(CleanHost(ftp_host)) :
        /\ ftp_log' =
               Append(ftp_log, Call("connect", CleanHost(ftp_host), out))
        /\ IF out = "ok"
           THEN ftp_state' = "Connected" /\ UNCHANGED ftp_ret
           ELSE FtpFail(out)
    /\ UNCHANGED <<ftp_host, remote_path, ftp_cwd, ftp_stored>>
    /\ UNCHANGED <<uvars, mvars, cvars, file>>

\* ftp.login(ftp_user, ftp_pass)
FtpLogin ==
    /\ ftp_state = "Connected"
    /\ ftp_ret = "none"
    /\ \E out \in LoginOutcomes :
        /\ ftp_log' = Append(ftp_log, Call("login", <<>>, out))
        /\ IF out = "ok"
           THEN ftp_state' = "Authenticated" /\ UNCHANGED ftp_ret
           ELSE FtpFail(out)
    /\ UNCHANGED <<ftp_host, remote_path, ftp_cwd, ftp_stored>>
    /\ UNCHANGED <<uvars, mvars, cvars, file>>

\* ftp.cwd(remote_path), with its except clause
FtpCwd ==
    /\ ftp_state = "Authenticated"
    /\ ftp_ret = "none"
    /\ NeedsCwd(remote_path)
    /\ Calls("cwd") = {}
    /\ \E out \in CwdOutcomes :
        /\ ftp_log' = Append(ftp_log, Call("cwd", remote_path, out))
        /\ IF out = "ok"
           THEN /\ ftp_state' = "Navigated"
                /\ ftp_cwd' = remote_path
                /\ UNCHANGED ftp_ret
           ELSE IF CwdHandled(out)
                THEN UNCHANGED <<ftp_state, ftp_ret, ftp_cwd>>
                ELSE FtpFail(out) /\ UNCHANGED ftp_cwd
    /\ UNCHANGED <<ftp_host, remote_path, ftp_stored>>
    /\ UNCHANGED <<uvars, mvars, cvars, file>>

\* open(file_path, 'rb') and ftp.storbinary('STOR <filename>', file)
FtpStor ==
    /\ \/ ftp_state = "Navigated"
       \/ /\ ftp_state = "Authenticated"
          /\ NeedsCwd(remote_path) => Calls("cwd") # {}
    /\ ftp_ret = "none"
    /\ \E out \in StorOutcomes(file) :
        /\ ftp_log' = Append(ftp_log, Call("stor", ftp_cwd, out))
        /\ IF out = "ok"
           THEN /\ ftp_state' = "Uploading"
                /\ ftp_stored' = Str(ftp_cwd)
                /\ UNCHANGED ftp_ret
           ELSE FtpFail(out) /\ UNCHANGED ftp_stored
    /\ UNCHANGED <<ftp_host, remote_path, ftp_cwd>>
    /\ UNCHANGED <<uvars, mvars, cvars, file>>

\* ftp.quit() and return True
FtpQuit ==
    /\ ftp_state = "Uploading"
    /\ ftp_ret = "none"
    /\ \E out \in QuitOutcomes :
        /\ ftp_log' = Append(ftp_log, Call("quit", <<>>, out))
        /\ IF out = "ok"
           THEN ftp_state' = "Closed" /\ ftp_ret' = "True"
           ELSE FtpFail(out)
    /\ UNCHANGED <<ftp_host, remote_path, ftp_cwd, ftp_stored>>
    /\ UNCHANGED <<uvars, mvars, cvars, file>>

(* Direct calls of upload_to_ftp *)

Hosts ==
    {<<"h">>,
     <<"f", "t", "p", ":", "/", "/", "h">>,
     <<"f", "t", "p", "s", ":", "/", "/", "h">>,
     <<"s", "f", "t", "p", ":", "/", "/", "h">>}

RemotePaths == {<<"/">>, <<"p", "u", "b">>}

InitFtp ==
    /\ UnitOff
    /\ MainOff
    /\ ConvertIdle
    /\ file \in {NoFile, HeaderLine}
    /\ ftp_state = "Idle"
    /\ ftp_ret = "none"
    /\ ftp_host \in Hosts
    /\ remote_path \in RemotePaths \cup {<<>>}
    /\ ftp_log = <<>>
    /\ ftp_cwd = <<"/">>
    /\ ftp_stored = None

NextFtp ==
    \/ FtpConnect
    \/ FtpReconnect
    \/ FtpLogin
    \/ FtpCwd
    \/ FtpStor
    \/ FtpQuit

SpecFtp == InitFtp /\ [][NextFtp]_vars

LastCall == ftp_log[Len(ftp_log)]

CallOk(i, step) == ftp_log[i].step = step /\ ftp_log[i].out = "ok"

\* the first resolution failure is answered by the second connect attempt
FirstLookupFailure(i) ==
    i = 1 /\ ftp_log[i].step = "connect" /\ ftp_log[i].out = "gaierror"

\* C3: a run follows Idle -> Connected -> Authenticated -> (Navigated) ->
\* Uploading -> Closed.  Every call is made right after its predecessor
\* succeeded; a failed connect, login, upload or quit is the last call of
\* the run and leaves it Failed; the run returns True exactly in Closed
\* and False exactly in Failed, never raises, and in every other state a
\* next call is still to come.
C3_PublisherStateMachine ==
    /\ ftp_ret # "raised"
    /\ (ftp_ret = "True") <=> (ftp_state = "Closed")
    /\ (ftp_ret = "False") <=> (ftp_state = "Failed")
    /\ ftp_state \in {"Idle", "Connected", "Authenticated", "Navigated",
                      "Uploading"} => ENABLED NextFtp
    /\ \A i \in DOMAIN ftp_log :
        /\ ftp_log[i].step = "connect" =>
               i = 1 \/ (i = 2 /\ FirstLookupFailure(1))
        /\ ftp_log[i].step = "login" => i > 1 /\ CallOk(i - 1, "connect")
        /\ ftp_log[i].step = "cwd" => i > 1 /\ CallOk(i - 1, "login")
        /\ ftp_log[i].step = "stor" =>
               /\ i > 1
               /\ \/ CallOk(i - 1, "login")
                  \/ ftp_log[i - 1].step = "cwd"
               /\ \E j \in 1..(i - 1) : CallOk(j, "login")
        /\ ftp_log[i].step = "quit" => i > 1 /\ CallOk(i - 1, "stor")
        /\ (/\ ftp_log[i].step \in {"connect", "login", "stor", "quit"}
            /\ ftp_log[i].out # "ok"
            /\ ~FirstLookupFailure(i))
           => i = Len(ftp_log) /\ ftp_state = "Failed"
    /\ ftp_state = "Idle" =>
           ftp_log = <<>> \/ (Len(ftp_log) = 1 /\ FirstLookupFailure(1))
    /\ ftp_state = "Connected" => CallOk(Len(ftp_log), "connect")
    /\ ftp_state = "Authenticated" =>
           \/ CallOk(Len(ftp_log), "login")
           \/ LastCall.step = "cwd" /\ LastCall.out # "ok"
    /\ ftp_state = "Navigated" => CallOk(Len(ftp_log), "cwd")
    /\ ftp_state = "Uploading" => CallOk(Len(ftp_log), "stor")
    /\ ftp_state = "Closed" => CallOk(Len(ftp_log), "quit")
    /\ ftp_state = "Failed" => ftp_log # <<>> /\ LastCall.out # "ok"

\* a run whose upload succeeded and whose session termination failed
\* ended in Failed and returned False
C3_Witness ==
    /\ ftp_state = "Failed"
    /\ ftp_ret = "False"
    /\ ftp_log # <<>>
    /\ LastCall.step = "quit"
    /\ \E i \in DOMAIN ftp_log : CallOk(i, "cwd")

\* C4: no change-directory is attempted for an empty or root remote_path;
\* a failed change-directory, of whatever kind, is only logged: the run is
\* then still Authenticated, the upload follows from the current directory,
\* and the failure is never the call that leaves the run Failed.
C4_CwdBestEffort ==
    /\ ~NeedsCwd(remote_path) => Calls("cwd") = {}
    /\ \A i \in Calls("cwd") :
        (ftp_log[i].out # "ok" /\ i = Len(ftp_log))
        => ftp_state = "Authenticated" /\ ftp_ret = "none"

\* the host string without a leading ftp:// or ftps://
StartsWith(s, pre) == Len(s) >= Len(pre) /\ SubSeq(s, 1, Len(pre)) = pre

WithoutSchemePrefix(host) ==
    IF StartsWith(host, <<"f", "t", "p", ":", "/", "/">>)
    THEN SubSeq(host, 7, Len(host))
    ELSE IF StartsWith(host, <<"f", "t", "p", "s", ":", "/", "/">>)
         THEN SubSeq(host, 8, Len(host))
         ELSE host

\* C11: a run makes at most two connect attempts.  The first is to the
\* host as given; a second is made only right after the first failed with
\* a hostname-resolution failure, and it is to the host string without its
\* ftp:// or ftps:// prefix.  Any other connect failure, and any failure
\* of the second attempt, is the last call of the run and leaves it
\* Failed.  Login and upload are attempted at most once, and once the run
\* has returned no further call is made.
C11_ConnectRetry ==
    /\ Cardinality(Calls("connect")) <= 2
    /\ Cardinality(Calls("login")) <= 1
    /\ Cardinality(Calls("stor")) <= 1
    /\ ftp_ret # "none" => ~ENABLED NextFtp
    /\ \A i \in Calls("connect") :
        /\ i = 1 \/ (i = 2 /\ FirstLookupFailure(1))
        /\ i = 1 => ftp_log[i].arg = ftp_host
        /\ i = 2 => ftp_log[i].arg = WithoutSchemePrefix(ftp_host)
        /\ (ftp_log[i].out # "ok" /\ ~FirstLookupFailure(i))
           => i = Len(ftp_log) /\ ftp_state = "Failed" /\ ftp_ret = "False"
    /\ (Len(ftp_log) = 1 /\ FirstLookupFailure(1)) =>
           ftp_state = "Idle" /\ ENABLED FtpReconnect

-----------------------------------------------------------------------------
(* main *)

MaxChannels == 2

\* the records a catalog is made of
RawRecords ==
    {Num(<<"5">>),
     Channel(Str(<<"D", "E">>), Str(<<"7">>), Str(<<"a", " ", "H", "D">>)),
     Channel(Str(<<>>), Null, Str(<<>>)),
     Channel(Absent, Absent, Absent),
     Channel(Str(<<"D", "E">>), Str(<<"7">>), Num(<<"5">>)),
     Channel(Str(<<Surrogate>>), Str(<<"7">>), Str(<<"a">>)),
     Channel(Str(<<"D", "E">>), Str(<<"7", Surrogate>>), Str(<<"a">>)),
     Channel(Str(<<"D", "\n", "E">>), Str(<<"7">>), Str(<<"1">>)),
     Channel(Null, Str(<<>>), Str(<<"B", "i", "l", "d", " ", "T", "V">>))}

RECURSIVE Catalogs(_)
Catalogs(n) ==
    IF n = 0 THEN {<<>>}
    ELSE LET shorter == Catalogs(n - 1)
         IN  shorter \cup {Append(s, r) : s \in shorter, r \in RawRecords}

List(s) == [t |-> "list", v |-> s]

\* a JSON object: v holds its keys
Object == [t |-> "dict", v |-> <<Str(<<"e", "r", "r", "o", "r">>)>>]

\* what download_json_from_url returns: None after a network or decoding
\* error, else the decoded body
FetchResults == {None, Object} \cup {List(s) : s \in Catalogs(MaxChannels)}

\* the test without isinstance(channels, list)
FetchOkTruthy(ch) == ch.v # <<>>

\* `if channels and isinstance(channels, list)`
FetchOk(ch) == ch.v # <<>> /\ ch.t = "list"

\* `if upload_enabled and ftp_config`
PublishWanted(enabled, config) == enabled /\ config # None

\* what get_ftp_config returns with the upload confirmed
FtpConfigs == [host : Hosts, remote_path : RemotePaths]

Init ==
    /\ UnitOff
    /\ pc = "modules"
    /\ pending = "none"
    /\ console = <<>>
    /\ upload_enabled = FALSE
    /\ ftp_config = None
    /\ channels = Unbound
    /\ ConvertIdle
    /\ file = NoFile
    /\ FtpNotCalled

\* check_and_install_modules(); on False the message, then sys.exit(1)
CheckModules ==
    /\ pc = "modules"
    /\ \/ pc' = "termux" /\ UNCHANGED <<pending, console>>
       \/ /\ console' = Append(console, "modules_failed")
          /\ pending' = "SystemExit"
          /\ pc' = "finally"
    /\ UNCHANGED <<upload_enabled, ftp_config, channels>>
    /\ UNCHANGED <<uvars, cvars, file, fvars>>

\* execute_termux_commands(): every path of it returns True
ExecuteTermuxCommands ==
    /\ pc = "termux"
    /\ pc' = "ftpconfig"
    /\ UNCHANGED <<pending, console, upload_enabled, ftp_config, channels>>
    /\ UNCHANGED <<uvars, cvars, file, fvars>>

\* get_ftp_config() and get_download_folder(); the latter raises NameError
\* on Android when no folder is writable
GetFtpConfig ==
    /\ pc = "ftpconfig"
    /\ \/ /\ upload_enabled' = FALSE
          /\ ftp_config' = None
          /\ pc' = "fetch"
          /\ UNCHANGED console
       \/ /\ \E config \in FtpConfigs :
                upload_enabled' = TRUE /\ ftp_config' = config
          /\ pc' = "fetch"
          /\ UNCHANGED console
       \/ /\ console' = Append(console, "unexpected_error")
          /\ pc' = "finally"
          /\ UNCHANGED <<upload_enabled, ftp_config>>
    /\ UNCHANGED <<pending, channels>>
    /\ UNCHANGED <<uvars, cvars, file, fvars>>

\* channels = download_json_from_url(json_url) and the test of line 530
Fetch ==
    /\ pc = "fetch"
    /\ \E body \in FetchResults :
        /\ channels' = body
        /\ IF FetchOk(body)
           THEN /\ pc' = "convert"
                /\ conv_pc' = "open"
                /\ UNCHANGED console
           ELSE /\ console' = Append(console, "load_failed")
                /\ pc' = "finally"
                /\ UNCHANGED conv_pc
    /\ UNCHANGED <<pending, upload_enabled, ftp_config>>
    /\ UNCHANGED <<it, original_name, processed_channels, conv_ret,
                   conv_fail>>
    /\ UNCHANGED <<uvars, file, fvars>>

\* convert_json_to_m3u8 returned: lines 534-550 up to the call of
\* upload_to_ftp
AfterConvert ==
    /\ pc = "convert"
    /\ conv_pc = "done"
    /\ IF conv_ret = "True"
       THEN IF PublishWanted(upload_enabled, ftp_config)
            THEN /\ console' = Append(console, "saved")
                 /\ pc' = "publish"
                 /\ ftp_state' = "Idle"
                 /\ ftp_host' = ftp_config.host
                 /\ remote_path' = ftp_config.remote_path
            ELSE /\ console' = console \o <<"saved", "no_upload">>
                 /\ pc' = "finally"
                 /\ UNCHANGED <<ftp_state, ftp_host, remote_path>>
       ELSE /\ console' = Append(console, "convert_failed")
            /\ pc' = "finally"
            /\ UNCHANGED <<ftp_state, ftp_host, remote_path>>
    /\ UNCHANGED <<pending, upload_enabled, ftp_config, channels>>
    /\ UNCHANGED <<ftp_ret, ftp_log, ftp_cwd, ftp_stored>>
    /\ UNCHANGED <<uvars, cvars, file>>

\* upload_to_ftp returned: lines 543-546
AfterPublish ==
    /\ pc = "publish"
    /\ ftp_ret \in {"True", "False"}
    /\ console' = Append(console, IF ftp_ret = "True" THEN "upload_ok"
                                  ELSE "upload_failed")
    /\ pc' = "finally"
    /\ UNCHANGED <<pending, upload_enabled, ftp_config, channels>>
    /\ UNCHANGED <<uvars, cvars, file, fvars>>

\* the finally block: the end-of-run report, then a pending exit goes on
Finally ==
    /\ pc = "finally"
    /\ console' = Append(console, "end")
    /\ pc' = IF pending = "none" THEN "done" ELSE "exited"
    /\ UNCHANGED <<pending, upload_enabled, ftp_config, channels>>
    /\ UNCHANGED <<uvars, cvars, file, fvars>>

Next ==
    \/ CheckModules
    \/ ExecuteTermuxCommands
    \/ GetFtpConfig
    \/ Fetch
    \/ ConvertOpen
    \/ ConvertEntry
    \/ ConvertFinish
    \/ AfterConvert
    \/ FtpConnect
    \/ FtpReconnect
    \/ FtpLogin
    \/ FtpCwd
    \/ FtpStor
    \/ FtpQuit
    \/ AfterPublish
    \/ Finally

Spec == Init /\ [][Next]_vars

-----------------------------------------------------------------------------
(* main under external interruption: Ctrl+C raises KeyboardInterrupt at the
   statement the interpreter is executing, and the nearest enclosing except
   clause that matches it takes over.  KeyboardInterrupt and SystemExit are
   not subclasses of Exception. *)

\* the stages inside the try block of main
TryStages == {"modules", "termux", "ftpconfig", "fetch", "convert", "publish"}

\* the except clauses of main: what they print for the error that reaches
\* them, "raised" for one they do not catch
MainHandler(kind) ==
    IF kind = "KeyboardInterrupt" THEN "interrupted"
    ELSE IF kind \in Exceptions \cup {"NameError"}
         THEN "unexpected_error"
         ELSE "raised"

\* the interruption arrives where no inner except clause catches it: the
\* callee is left by the exception, main's `except KeyboardInterrupt`
\* prints its message and the finally block follows
InterruptTry ==
    /\ pc \in TryStages
    /\ console' = Append(console, MainHandler("KeyboardInterrupt"))
    /\ pc' = "finally"
    /\ conv_pc' = IF conv_pc \in {"open", "loop"} THEN "raised" ELSE conv_pc
    /\ IF pc = "publish" /\ ftp_ret = "none"
       THEN FtpFail("KeyboardInterrupt")
       ELSE UNCHANGED <<ftp_state, ftp_ret>>
    /\ UNCHANGED <<pending, upload_enabled, ftp_config, channels>>
    /\ UNCHANGED <<it, original_name, processed_channels, conv_ret,
                   conv_fail>>
    /\ UNCHANGED <<ftp_host, remote_path, ftp_log, ftp_cwd, ftp_stored>>
    /\ UNCHANGED <<uvars, file>>

\* the interruption arrives during the pip fallback: its bare except
\* prints, check_and_install_modules returns False, main exits
InterruptInstall ==
    /\ pc = "modules"
    /\ console' = console \o <<"install_failed", "modules_failed">>
    /\ pending' = "SystemExit"
    /\ pc' = "finally"
    /\ UNCHANGED <<upload_enabled, ftp_config, channels>>
    /\ UNCHANGED <<uvars, cvars, file, fvars>>

\* the interruption arrives at the input() that precedes sys.exit(1)
InterruptExitPrompt ==
    /\ pc = "modules"
    /\ console' = console \o <<"modules_failed",
                               MainHandler("KeyboardInterrupt")>>
    /\ pc' = "finally"
    /\ UNCHANGED <<pending, upload_enabled, ftp_config, channels>>
    /\ UNCHANGED <<uvars, cvars, file, fvars>>

\* the interruption arrives during termux-setup-storage: the bare except
\* prints a warning and execute_termux_commands returns True
InterruptStorage ==
    /\ pc = "termux"
    /\ console' = Append(console, "storage_warning")
    /\ pc' = "ftpconfig"
    /\ UNCHANGED <<pending, upload_enabled, ftp_config, channels>>
    /\ UNCHANGED <<uvars, cvars, file, fvars>>

\* the interruption arrives at a prompt of get_ftp_config: its except
\* clause prints and returns (False, None), and main goes on
InterruptInput ==
    /\ pc = "ftpconfig"
    /\ console' = Append(console, "input_aborted")
    /\ upload_enabled' = FALSE
    /\ ftp_config' = None
    /\ pc' = "fetch"
    /\ UNCHANGED <<pending, channels>>
    /\ UNCHANGED <<uvars, cvars, file, fvars>>

\* the interruption arrives in the finally block before its prints are
\* done: nothing catches it there, it replaces a pending exit and leaves
\* main
InterruptFinally ==
    /\ pc = "finally"
    /\ pending' = "KeyboardInterrupt"
    /\ pc' = "crashed"
    /\ UNCHANGED <<console, upload_enabled, ftp_config, channels>>
    /\ UNCHANGED <<uvars, cvars, file, fvars>>

\* the interruption arrives at the last input(): the bare except drops it
InterruptLastPrompt ==
    /\ pc = "finally"
    /\ console' = Append(console, "end")
    /\ pc' = IF pending = "none" THEN "done" ELSE "exited"
    /\ UNCHANGED <<pending, upload_enabled, ftp_config, channels>>
    /\ UNCHANGED <<uvars, cvars, file, fvars>>

Interrupt ==
    \/ InterruptTry
    \/ InterruptInstall
    \/ InterruptExitPrompt
    \/ InterruptStorage
    \/ InterruptInput
    \/ InterruptFinally
    \/ InterruptLastPrompt

NextRun == Next \/ Interrupt

\* the interpreter keeps executing main: every blocking call has a
\* timeout or waits for the user, who answers or interrupts.  No
\* interruption is ever bound to come.
SpecRun == Init /\ [][NextRun]_vars /\ WF_vars(Next)

-----------------------------------------------------------------------------
(* The claims about the serializer and the pipeline *)

\* the lines of a file: the text between the "\n"
RECURSIVE LinesFrom(_, _, _)
LinesFrom(f, i, line) ==
    IF i > Len(f) THEN (IF line = <<>> THEN <<>> ELSE <<line>>)
    ELSE IF f[i] = "\n" THEN <<line>> \o LinesFrom(f, i + 1, <<>>)
    ELSE LinesFrom(f, i + 1, Append(line, f[i]))

Lines(f) == LinesFrom(f, 1, <<>>)

\* the index of the first occurrence of piece in line, 0 when there is none
IndexOf(line, piece) ==
    IF \E i \in DOMAIN line : line[i] = piece
    THEN CHOOSE i \in DOMAIN line :
             line[i] = piece /\ \A j \in 1..(i - 1) : line[j] # piece
    ELSE 0

\* processing the record raises an error somewhere
EntryRaises(channel) ==
    \/ channel.t # "map"
    \/ EntryUrl(channel).raised
    \/ \E k \in 1..4 :
           ~Encodable(EntryWrites(channel, EntryUrl(channel).v)[k])

Sound(channel) == ~EntryRaises(channel)

SerializerRan == conv_pc = "done" /\ conv_fail # "filesystem"

\* C1: a record whose processing raises is skipped alone: the serializer
\* still visits every record, writes every other one and returns True,
\* whatever the position of the bad record.
C1_EntryIsolation ==
    SerializerRan =>
        /\ conv_ret = "True"
        /\ it = Len(Items(channels)) + 1
        /\ processed_channels = Len(SelectSeq(Items(channels), Sound))

IsUrlLine(line) ==
    /\ line # <<>>
    /\ line[1] \in {BildUrl[1], PlaceholderUrl[1], "https://huhu.to/play/"}

\* C2: the file of a playlist of N entries has 1 + 4 * N lines: the header,
\* then per entry the user-agent option, the referrer option, the
\* entry-info line and the stream URL, in the order of the catalog.
C2_LineCount ==
    (conv_pc = "done" /\ conv_ret = "True") =>
        LET L == Lines(file)
            N == processed_channels
            entries == SelectSeq(Items(channels), Sound)
        IN  /\ Len(L) = 1 + 4 * N
            /\ L[1] = <<HeaderText>>
            /\ N = Len(entries)
            /\ \A k \in 1..N :
                /\ L[4 * k - 2] = <<UserAgentText>>
                /\ L[4 * k - 1] = <<ReferrerText>>
                /\ L[4 * k][1] = ExtInfHead
                /\ IsUrlLine(L[4 * k + 1])
                /\ L[4 * k + 1] = EntryUrl(entries[k]).v

\* the group-title of an entry-info line
CountryOf(line) ==
    LET e == IndexOf(line, ExtInfLogo)
    IN  SubSeq(line, 2, IF e = 0 THEN Len(line) ELSE e - 1)

\* the tvg-name of an entry-info line
NameOf(line) ==
    SubSeq(line, IndexOf(line, ExtInfLogo) + 1,
           IndexOf(line, ExtInfLabel) - 1)

\* the label of an entry-info line
LabelOf(line) == SubSeq(line, IndexOf(line, ExtInfLabel) + 1, Len(line))

\* C8: in every entry block of the file the group-title, the tvg-name, the
\* label and the URL line are non-empty.
C8_NoEmptyField ==
    file # NoFile =>
        LET L == Lines(file)
        IN  \A i \in DOMAIN L :
                (L[i] # <<>> /\ L[i][1] = ExtInfHead) =>
                    /\ CountryOf(L[i]) # <<>>
                    /\ IndexOf(L[i], ExtInfLabel) # 0 =>
                           /\ NameOf(L[i]) # <<>>
                           /\ LabelOf(L[i]) # <<>>
                           /\ i + 1 \in DOMAIN L => L[i + 1] # <<>>

Reported(msg) == \E i \in DOMAIN console : console[i] = msg

\* C5: the stages are gated in order.  The serializer is invoked, and the
\* file touched, only after the fetch returned a list of records; a fetch
\* that returned anything else ends the run with the failure reported and
\* no file.  The publisher is invoked only after the serializer returned
\* True with a publish target supplied; a serializer failure skips it.
C5_StagesGated ==
    /\ (conv_pc # "idle" \/ file # NoFile) =>
           channels.t = "list" /\ channels.v # <<>>
    /\ (channels # Unbound /\ ~(channels.t = "list" /\ channels.v # <<>>)) =>
           /\ pc \in {"finally", "done"}
           /\ Reported("load_failed")
           /\ file = NoFile
           /\ ftp_state = "NotCalled"
    /\ ftp_state # "NotCalled" =>
           /\ conv_ret = "True"
           /\ upload_enabled
           /\ ftp_config # None
    /\ (conv_ret = "True" /\ ~(upload_enabled /\ ftp_config # None)) =>
           ftp_state = "NotCalled"
    /\ conv_ret = "False" =>
           /\ ftp_state = "NotCalled"
           /\ pc \in {"finally", "done"} => Reported("convert_failed")

\* a run with a publish target whose serializer failed on the file system
\* ended without the publisher having been called
C5_Witness ==
    /\ pc = "done"
    /\ conv_ret = "False"
    /\ conv_fail = "filesystem"
    /\ upload_enabled
    /\ ftp_state = "NotCalled"
    /\ Reported("convert_failed")


\* main is over: it returned, or something propagated out of it
Over == pc \in {"done", "exited", "crashed"}

\* an interruption was delivered at some point of the run
Interrupted ==
    \/ Reported("interrupted")
    \/ Reported("install_failed")
    \/ Reported("storage_warning")
    \/ Reported("input_aborted")
    \/ pending = "KeyboardInterrupt"

\* each failure that happened has its message from main on the console;
\* a stage that failed right before an interruption may be covered by the
\* interruption's message
FailuresReported ==
    /\ pending = "SystemExit" => Reported("modules_failed")
    /\ (channels # Unbound /\ ~FetchOk(channels)) =>
           Reported("load_failed") \/ Reported("interrupted")
    /\ conv_ret = "False" =>
           Reported("convert_failed") \/ Reported("interrupted")
    /\ ftp_ret = "False" =>
           Reported("upload_failed") \/ Reported("interrupted")
    /\ Interrupted => Reported("interrupted")

\* C12: every run of main, whatever stage fails and wherever it is
\* interrupted, eventually prints the end-of-run report and returns; when
\* main is over the end-of-run report is on the console, every failure and
\* every interruption has its top-level message, and neither an error nor
\* an exit signal has left main.
C12_AlwaysEndsReported ==
    /\ <>(pc = "done" /\ Reported("end"))
    /\ [](Over => /\ Reported("end")
                  /\ FailuresReported
                  /\ pc = "done"
                  /\ pending = "none")

=============================================================================
